---------------------------- MODULE Spec2Model ----------------------------
(***************************************************************************)
(* Model of src/practical.py: the URL -> notes pipeline (router,           *)
(* transcript fetcher, article fetcher, image harvester, OCR extractor,    *)
(* document assembler, summarizer, PDF export) and the Streamlit script    *)
(* that drives it.                                                         *)
(*                                                                         *)
(* Two representations of Python strings are used.                         *)
(*  - A URL is a tuple of one-character strings, so that substring tests,  *)
(*    the regular-expression search and urljoin work on characters.        *)
(*  - A text (transcript, article body, OCR output, prompt, summary) is a  *)
(*    run-length encoded tuple of [c |-> character, n |-> repetitions]     *)
(*    in canonical form (no empty run, no two adjacent runs of the same    *)
(*    character), so that texts around the 7000-character limit stay       *)
(*    small.  Two texts are the same Python string iff their canonical     *)
(*    encodings are equal.                                                 *)
(* A Python value that may be None is a tuple: <<>> is None, <<x>> is x.   *)
(***************************************************************************)
EXTENDS Integers, Sequences, FiniteSets, TLC

None == <<>>
Some(x) == <<x>>

-----------------------------------------------------------------------------
(* Bounds of the model.                                                    *)

\* number of URL segments concatenated into the text-input value
MaxUrlSegs == 2
\* number of URL segments of the arguments get_video_id is applied to on its own
MaxIdSegs == 3
\* number of <img> elements of the pages extract_image_urls is applied to on its own
MaxImgs == 5
\* number of snippets of a fetched transcript
MaxSnippets == 2

-----------------------------------------------------------------------------
(* Program constants.                                                      *)

\* {11} in the pattern of get_video_id
IdLen == 11
\* content[:7000] in summarize_with_groq
Limit == 7000
\* img_urls[:3] in extract_image_urls
MaxHarvest == 3

YOUTUBE_COM == <<"y", "o", "u", "t", "u", "b", "e", ".", "c", "o", "m">>
YOUTU_BE == <<"y", "o", "u", "t", "u", ".", "b", "e">>

\* the character class [0-9A-Za-z_-]
IdChars ==
  {"0", "1", "2", "3", "4", "5", "6", "7", "8", "9",
   "A", "B", "C", "D", "E", "F", "G", "H", "I", "J", "K", "L", "M",
   "N", "O", "P", "Q", "R", "S", "T", "U", "V", "W", "X", "Y", "Z",
   "a", "b", "c", "d", "e", "f", "g", "h", "i", "j", "k", "l", "m",
   "n", "o", "p", "q", "r", "s", "t", "u", "v", "w", "x", "y", "z",
   "_", "-"}

\* the characters str.strip() removes (those the model's strings use)
Whitespace == {" ", "\n", "\t"}

\* a character outside latin-1 (U+2022, the bullet), one atom of a text
Bullet == "U+2022"
NonLatin1 == {Bullet}

-----------------------------------------------------------------------------
(* Character-tuple strings (URLs).                                         *)

Min(a, b) == IF a <= b THEN a ELSE b

\* s.startswith(p)
StartsWith(s, p) == Len(p) <= Len(s) /\ SubSeq(s, 1, Len(p)) = p

\* the least element of the set S of integers, d when S is empty
Least(S, d) == IF S = {} THEN d ELSE CHOOSE i \in S : \A j \in S : i <= j

\* the greatest element of the set S of integers, d when S is empty
Greatest(S, d) == IF S = {} THEN d ELSE CHOOSE i \in S : \A j \in S : j <= i

\* the j-th element of the set S of integers in increasing order
Nth(S, j) == CHOOSE k \in S : Cardinality({m \in S : m < k}) = j - 1

\* the least position >= i at which pat occurs in s, 0 if none
FindFrom(pat, s, i) ==
  Least({p \in i..(Len(s) - Len(pat) + 1) : SubSeq(s, p, p + Len(pat) - 1) = pat}, 0)

\* pat in s
Contains(pat, s) == FindFrom(pat, s, 1) # 0

RECURSIVE StripLeft(_)
StripLeft(s) ==
  IF s # <<>> /\ Head(s) \in Whitespace THEN StripLeft(Tail(s)) ELSE s

RECURSIVE StripRight(_)
StripRight(s) ==
  IF s # <<>> /\ s[Len(s)] \in Whitespace
  THEN StripRight(SubSeq(s, 1, Len(s) - 1)) ELSE s

\* str.strip() on a URL
Strip(s) == StripRight(StripLeft(s))

-----------------------------------------------------------------------------
(* Run-length encoded texts.                                               *)

Run(ch, k) == [c |-> ch, n |-> k]

\* the text made of k copies of ch
Rep(ch, k) == IF k <= 0 THEN <<>> ELSE <<Run(ch, k)>>

\* a + b
TCat(a, b) ==
  IF a = <<>> THEN b
  ELSE IF b = <<>> THEN a
  ELSE IF a[Len(a)].c = b[1].c
       THEN SubSeq(a, 1, Len(a) - 1)
              \o <<Run(b[1].c, a[Len(a)].n + b[1].n)>> \o Tail(b)
       ELSE a \o b

\* the text of a character tuple: one run per maximal block of equal characters
Text(s) ==
  LET starts == {i \in 1..Len(s) : i = 1 \/ s[i] # s[i - 1]}
      count  == Cardinality(starts)
      end(j) == IF j = count THEN Len(s) + 1 ELSE Nth(starts, j + 1)
  IN  [j \in 1..count |-> Run(s[Nth(starts, j)], end(j) - Nth(starts, j))]

RECURSIVE LenOfRuns(_, _, _)
\* the number of characters of the runs i..j of t
LenOfRuns(t, i, j) ==
  IF i > j THEN 0
  ELSE IF i = j THEN t[i].n
  ELSE LenOfRuns(t, i, (i + j) \div 2) + LenOfRuns(t, (i + j) \div 2 + 1, j)

\* len(t)
TLen(t) == LenOfRuns(t, 1, Len(t))

\* t[:k]
TTake(t, k) ==
  IF k <= 0 THEN <<>>
  ELSE IF k >= TLen(t) THEN t
  ELSE LET cut  == Least({i \in 1..Len(t) : LenOfRuns(t, 1, i) >= k}, 0)
           rest == k - LenOfRuns(t, 1, cut - 1)
       IN  SubSeq(t, 1, cut - 1) \o <<Run(t[cut].c, rest)>>

RECURSIVE TStripLeft(_)
TStripLeft(t) ==
  IF t # <<>> /\ Head(t).c \in Whitespace THEN TStripLeft(Tail(t)) ELSE t

RECURSIVE TStripRight(_)
TStripRight(t) ==
  IF t # <<>> /\ t[Len(t)].c \in Whitespace
  THEN TStripRight(SubSeq(t, 1, Len(t) - 1)) ELSE t

\* t.strip()
TStrip(t) == TStripRight(TStripLeft(t))

RECURSIVE Join(_, _)
\* sep.join(parts)
Join(sep, parts) ==
  IF parts = <<>> THEN <<>>
  ELSE IF Len(parts) = 1 THEN parts[1]
  ELSE TCat(TCat(parts[1], sep), Join(sep, Tail(parts)))

RECURSIVE SplitRuns(_, _, _)
\* t.split(sep) for a one-character sep: cur is the line being read
SplitRuns(t, sep, cur) ==
  IF t = <<>> THEN <<cur>>
  ELSE IF Head(t).c = sep
       THEN IF Head(t).n = 1
            THEN <<cur>> \o SplitRuns(Tail(t), sep, <<>>)
            ELSE <<cur>> \o SplitRuns(<<Run(sep, Head(t).n - 1)>> \o Tail(t), sep, <<>>)
       ELSE SplitRuns(Tail(t), sep, cur \o <<Head(t)>>)

Split(t, sep) == SplitRuns(t, sep, <<>>)

\* t.encode('latin-1') succeeds
Latin1(t) == \A i \in 1..Len(t) : t[i].c \notin NonLatin1

-----------------------------------------------------------------------------
(* Identifier Extractor.                                                   *)

\* [0-9A-Za-z_-]{11} matches at position j of url
ClassRun(url, j) ==
  /\ j + IdLen - 1 <= Len(url)
  /\ \A k \in j..(j + IdLen - 1) : url[k] \in IdChars

\* the pattern (?:v=|\/)([0-9A-Za-z_-]{11}) tried at position i: group 1, or None
MatchAt(url, i) ==
  IF i + 1 <= Len(url) /\ url[i] = "v" /\ url[i + 1] = "=" /\ ClassRun(url, i + 2)
  THEN Some(SubSeq(url, i + 2, i + 1 + IdLen))
  ELSE IF url[i] = "/" /\ ClassRun(url, i + 1)
       THEN Some(SubSeq(url, i + 1, i + IdLen))
       ELSE None

\* re.search: the match at the least position >= i
re_search(url, i) ==
  LET hits == {p \in i..Len(url) : MatchAt(url, p) # None}
  IN  IF hits = {} THEN None ELSE MatchAt(url, Least(hits, 0))

get_video_id_first_only(url) == IF url = <<>> THEN None ELSE MatchAt(url, 1)

\* get_video_id(url): Some(identifier) or None
get_video_id(url) == re_search(url, 1)

-----------------------------------------------------------------------------
(* Router.                                                                 *)

route_input_com_only(url) ==
  IF Contains(YOUTUBE_COM, url) THEN "youtube" ELSE "article"

route_input(url) ==
  IF Contains(YOUTUBE_COM, url) \/ Contains(YOUTU_BE, url)
  THEN "youtube" ELSE "article"

-----------------------------------------------------------------------------
(* Transcript Fetcher: the lookups of the transcript list.                 *)

\* the language preference passed to both lookups
Preference == <<"en", "hi">>

RECURSIVE FindTranscript(_, _)
\* the first language of codes that available holds: Some(language), or
\* None when the lookup raises NoTranscriptFound
FindTranscript(codes, available) ==
  IF codes = <<>> THEN None
  ELSE IF Head(codes) \in available THEN Some(Head(codes))
  ELSE FindTranscript(Tail(codes), available)

find_manually_created_transcript(tl) == FindTranscript(Preference, tl.manual)

find_generated_transcript(tl) == FindTranscript(Preference, tl.generated)

\* " ".join([snippet.text for snippet in fetched])
transcript_text(fetched) == Join(Rep(" ", 1), fetched)

-----------------------------------------------------------------------------
(* Image Harvester.                                                        *)

\* the least position >= i of s holding a character of set, Len(s) + 1 if none
FirstIn(s, set, i) == Least({p \in i..Len(s) : s[p] \in set}, Len(s) + 1)

\* the greatest position <= i of s holding a character of set, 0 if none
LastIn(s, set, i) == Greatest({p \in 1..i : s[p] \in set}, 0)

\* s starts with a scheme ("name:")
HasScheme(s) ==
  LET p == FirstIn(s, {":", "/", "?", "#"}, 1)
  IN  p > 1 /\ p <= Len(s) /\ s[p] = ":"

\* urljoin drops the empty segments inside a merged path: a slash that a
\* slash follows
CollapseSlashes(p) ==
  LET keep == {k \in 1..Len(p) : ~(k < Len(p) /\ p[k] = "/" /\ p[k + 1] = "/")}
  IN  [j \in 1..Cardinality(keep) |-> p[Nth(keep, j)]]

\* urllib.parse.urljoin(base, src) for an http(s) base and a src that is an
\* absolute URL, a rooted path or a relative path without dot segments
urljoin(base, src) ==
  IF HasScheme(src) THEN src
  ELSE
    LET authStart == FindFrom(<<":", "/", "/">>, base, 1) + 3
        authEnd   == FirstIn(base, {"/", "?", "#"}, authStart)
        pathEnd   == FirstIn(base, {"?", "#"}, authEnd)
        path      == SubSeq(base, authEnd, pathEnd - 1)
        dir       == IF path = <<>> THEN <<"/">>
                     ELSE SubSeq(path, 1, LastIn(path, {"/"}, Len(path)))
        origin    == SubSeq(base, 1, authEnd - 1)
    IN  IF Head(src) = "/" THEN origin \o CollapseSlashes(src)
        ELSE origin \o CollapseSlashes(dir \o src)

RECURSIVE img_urls_of(_, _)
\* the loop of extract_image_urls over soup.find_all("img"): imgs holds, per
\* <img> element in document order, img.get("src") (None when absent)
img_urls_of(url, imgs) ==
  IF imgs = <<>> THEN <<>>
  ELSE IF Head(imgs) # None /\ Head(imgs)[1] # <<>>
       THEN <<urljoin(url, Head(imgs)[1])>> \o img_urls_of(url, Tail(imgs))
       ELSE img_urls_of(url, Tail(imgs))

extract_image_urls_capped_scan(url, imgs) ==
  img_urls_of(url, SubSeq(imgs, 1, Min(Len(imgs), MaxHarvest)))

\* extract_image_urls(url) on the parsed page: img_urls[:3]
extract_image_urls(url, imgs) ==
  LET all == img_urls_of(url, imgs)
  IN  SubSeq(all, 1, Min(Len(all), MaxHarvest))

-----------------------------------------------------------------------------
(* OCR Extractor, Document Assembler, Summarizer, PDF Exporter.            *)

IMAGES_HEADER ==
  Text(<<"\n", "\n", "I", "m", "p", "o", "r", "t", "a", "n", "t", " ",
         "T", "e", "x", "t", " ", "f", "r", "o", "m", " ",
         "I", "m", "a", "g", "e", "s", ":", "\n">>)

USER_PREFIX ==
  Text(<<"G", "e", "n", "e", "r", "a", "t", "e", " ", "n", "o", "t", "e", "s", " ",
         "i", "n", " ", "b", "u", "l", "l", "e", "t", " ",
         "p", "o", "i", "n", "t", "s", ":", "\n">>)

SYSTEM_PROMPT == "You are an expert AI Notes Generator. ..."

ocr_from_image_url_raising(outcome) == outcome

\* ocr_from_image_url: outcome is None when the download, the decoding or the
\* recognition raised, Some(raw text) otherwise; the result is Some(text), or
\* None when the function itself raises (it never does)
ocr_from_image_url(outcome) ==
  IF outcome = None THEN Some(<<>>) ELSE Some(TStrip(outcome[1]))

\* full_content of extract_article_with_images
full_content(text, ocr_text) == TCat(TCat(text, IMAGES_HEADER), ocr_text)

user_message_untruncated(content) == TCat(USER_PREFIX, content)

\* the user message summarize_with_groq sends
user_message(content) == TCat(USER_PREFIX, TTake(content, Limit))

\* the request of summarize_with_groq
completion_request(content) ==
  [model       |-> "llama-3.1-8b-instant",
   system      |-> SYSTEM_PROMPT,
   user        |-> user_message(content),
   temperature |-> "0.3"]

\* create_pdf(summary): Some(the cells, one per line), or None when a
\* character has no latin-1 encoding and the export raises
create_pdf(summary) ==
  IF Latin1(summary) THEN Some(Split(summary, "\n")) ELSE None

\* Python truthiness of an optional text: `if content`, `if summary`
Truthy(v) == v # None /\ v[1] # <<>>

-----------------------------------------------------------------------------
(* Inputs: what the user types and what the external services answer.      *)

SegYtBe == <<"h", "t", "t", "p", "s", ":", "/", "/", "y", "o", "u", "t", "u", ".", "b", "e", "/">>
SegYtCom == <<"h", "t", "t", "p", "s", ":", "/", "/", "w", "w", "w", ".", "y", "o", "u", "t", "u", "b", "e", ".", "c", "o", "m", "/">>
SegYtCap == <<"h", "t", "t", "p", "s", ":", "/", "/", "w", "w", "w", ".", "Y", "o", "u", "T", "u", "b", "e", ".", "c", "o", "m", "/">>
SegAttr == <<"h", "t", "t", "p", "s", ":", "/", "/", "w", "w", "w", ".", "y", "o", "u", "t", "u", "b", "e", ".", "c", "o", "m", "/", "a", "t", "t", "r", "i", "b", "u", "t", "i", "o", "n", "_", "l", "i", "n", "k", "?", "u", "=">>
SegSite == <<"h", "t", "t", "p", "s", ":", "/", "/", "e", "x", "a", "m", "p", "l", "e", ".", "o", "r", "g", "/">>
SegWatch == <<"w", "a", "t", "c", "h", "?", "v", "=">>
SegId == <<"A", "B", "C", "D", "E", "F", "G", "H", "I", "J", "K">>
SegShort == <<"a", "-", "_", "9">>

Segs == {SegYtBe, SegYtCom, SegYtCap, SegAttr, SegSite, SegWatch, SegId, SegShort}

\* the segments of the values typed into the text input
InputSegs == {SegYtBe, SegYtCom, SegYtCap, SegSite, SegWatch, SegId}

RECURSIVE UrlsOf(_, _)
\* the concatenations of at most n segments of S
UrlsOf(S, n) ==
  IF n = 0 THEN {<<>>}
  ELSE LET shorter == UrlsOf(S, n - 1)
       IN  shorter \cup {s \o u : s \in S, u \in shorter}

\* the values of the text input: URLs, the empty value, a blank value
InputUrls == UrlsOf(InputSegs, MaxUrlSegs) \cup {<<" ">>}

\* the arguments get_video_id is applied to on its own
IdUrls == UrlsOf(Segs, MaxIdSegs)

HTTPS == <<"h", "t", "t", "p", "s", ":", "/", "/">>

\* a URL the HTTP clients can request at all (others raise before any
\* request is made)
Fetchable(url) == StartsWith(url, HTTPS)

Langs == {"en", "hi", "de"}

\* what ytt_api.list returns: the languages that have a manually created
\* transcript and those that have a generated one
TranscriptLists == [manual : SUBSET Langs, generated : SUBSET Langs]

Hello == Text(<<"H", "e", "l", "l", "o", " ", "w", "o", "r", "l", "d">>)

SnippetTexts == {<<>>, Hello, Rep("a", Limit)}

RECURSIVE SeqsOf(_, _)
\* the sequences over S of length at most n
SeqsOf(S, n) ==
  IF n = 0 THEN {<<>>}
  ELSE LET shorter == SeqsOf(S, n - 1)
       IN  shorter \cup {<<x>> \o s : x \in S, s \in {t \in shorter : Len(t) = n - 1}}

\* what transcript.fetch() returns: the snippet texts in order
FetchedTranscripts == SeqsOf(SnippetTexts, MaxSnippets)

\* what article.text can be
ArticleTexts ==
  {<<>>, Hello, Rep("a", Limit - TLen(IMAGES_HEADER)), Rep("a", Limit + 1)}

SrcRelative == <<"a", ".", "p", "n", "g">>
SrcRooted == <<"/", "i", "m", "g", "/", "b", ".", "p", "n", "g">>
SrcAbsolute == <<"h", "t", "t", "p", "s", ":", "/", "/", "c", "d", "n", ".", "e", "x", "a", "m", "p", "l", "e", ".", "n", "e", "t", "/", "c", ".", "p", "n", "g">>

\* img.get("src") of one <img> element
ImgSrcs == {None, Some(<<>>), Some(SrcRelative), Some(SrcRooted), Some(SrcAbsolute)}

\* the pages extract_image_urls is applied to on its own
HarvestPages == SeqsOf(ImgSrcs, MaxImgs)

\* the page URLs extract_image_urls is applied to on its own: a directory, a file, a
\* file with a query, a path holding "//"
HarvestUrls ==
  {SegSite, SegSite \o SegShort, SegSite \o SegWatch \o SegId, SegYtCap \o SegSite \o SegShort}

\* the pages the pipeline meets: no image, one image, source-less elements
\* between images, more images than are harvested
PipelinePages ==
  { <<>>,
    <<Some(SrcRelative)>>,
    <<None, Some(SrcRooted), Some(<<>>), Some(SrcAbsolute)>>,
    <<Some(SrcRelative), None, Some(SrcAbsolute), Some(SrcRooted), Some(SrcRelative)>> }

\* what downloading and recognising one image gives: None when any step
\* raises, else the recognised text before strip()
OcrOutcomes == {None, Some(Rep(" ", 1)), Some(Text(<<" ", "O", "C", "R", "\n">>))}

\* response.choices[0].message.content of a completion that did not raise
Completions ==
  { <<>>,
    Text(<<"-", " ", "a", "\n", "-", " ", "b">>),
    Text(<<Bullet, " ", "a">>) }

-----------------------------------------------------------------------------
(* State.                                                                  *)

VARIABLES
  user_link,        \* the value of the text input
  thumbnail,        \* the video identifier of the thumbnail shown, or None
  pc,               \* where the script is
  input_type,       \* agent_pipeline: "none" until routed
  video_id,         \* extract_youtube_transcript: locals
  transcript_list,
  transcript,
  text,             \* extract_article_with_images: locals
  html,
  image_urls,
  ocr_raw,          \* what the OCR of each processed image gave
  ocr_text,
  content,          \* agent_pipeline: content
  request,          \* the completion request sent, or None
  summary,          \* the script: summary
  pdf,              \* the script: pdf_data
  shown,            \* what the page shows
  unhandled,        \* an exception left the script
  calls             \* the components invoked in this run, with their outcome

vars ==
  <<user_link, thumbnail, pc, input_type, video_id, transcript_list, transcript,
    text, html, image_urls, ocr_raw, ocr_text, content, request, summary, pdf,
    shown, unhandled, calls>>

Call(op, res) == [op |-> op, res |-> res]

Log(op, res) == calls' = Append(calls, Call(op, res))

\* the script starts from the top: nothing of the previous run is kept
Fresh ==
  /\ input_type' = "none"
  /\ video_id' = None
  /\ transcript_list' = None
  /\ transcript' = None
  /\ text' = None
  /\ html' = None
  /\ image_urls' = <<>>
  /\ ocr_raw' = <<>>
  /\ ocr_text' = <<>>
  /\ content' = None
  /\ request' = None
  /\ summary' = None
  /\ pdf' = None
  /\ unhandled' = FALSE
  /\ calls' = <<>>

Init ==
  /\ user_link = <<>>
  /\ thumbnail = None
  /\ pc = "idle"
  /\ input_type = "none"
  /\ video_id = None
  /\ transcript_list = None
  /\ transcript = None
  /\ text = None
  /\ html = None
  /\ image_urls = <<>>
  /\ ocr_raw = <<>>
  /\ ocr_text = <<>>
  /\ content = None
  /\ request = None
  /\ summary = None
  /\ pdf = None
  /\ shown = {}
  /\ unhandled = FALSE
  /\ calls = <<>>

ytLocals == <<video_id, transcript_list, transcript>>
artLocals == <<text, html, image_urls, ocr_raw, ocr_text>>
ui == <<user_link, thumbnail, shown>>
outputs == <<request, summary, pdf>>

-----------------------------------------------------------------------------
(* Where control goes when a step raises or returns early.                 *)

\* an exception no handler catches: the script stops
Uncaught == [pc |-> "end", unhandled |-> TRUE, shown |-> {}]

transcript_except_reraise == Uncaught

\* extract_youtube_transcript, `except Exception as e`: st.error, return None
transcript_except == [pc |-> "check", unhandled |-> FALSE, shown |-> {"transcript_error"}]

\* extract_youtube_transcript, `if not video_id: return None`
no_video_id == [pc |-> "check", unhandled |-> FALSE, shown |-> {}]

after_manual_always_generated(found) == "yt_generated"

\* the inner try/except around find_manually_created_transcript
after_manual(found) == IF found = None THEN "yt_generated" ELSE "yt_fetch"

article_failure_as_no_content == [pc |-> "check", unhandled |-> FALSE, shown |-> {}]

\* extract_article_text raises inside extract_article_with_images
article_failure == Uncaught

\* requests.get raises inside extract_image_urls
harvest_failure == Uncaught

\* client.chat.completions.create raises inside summarize_with_groq
summarize_failure == Uncaught

after_check_none_only(c) == IF c = None THEN "ui_result" ELSE "summarize"

\* agent_pipeline, `if not content: return None`
after_check(c) == IF ~Truthy(c) THEN "ui_result" ELSE "summarize"

\* the script takes the outcome h of a step
Take(h) ==
  /\ pc' = h.pc
  /\ unhandled' = h.unhandled
  /\ shown' = shown \cup h.shown

-----------------------------------------------------------------------------
(* The Streamlit script.                                                   *)

\* the user edits the text input: the script reruns without the button
EnterUrl(u) ==
  /\ pc = "idle"
  /\ Fresh
  /\ user_link' = u
  /\ thumbnail' =
       IF u # <<>> /\ (Contains(YOUTUBE_COM, u) \/ Contains(YOUTU_BE, u))
       THEN get_video_id(u) ELSE None
  /\ shown' = {}
  /\ pc' = "idle"

\* the user empties the text input after a run.  (Any edit reruns the script,
\* which keeps nothing of the run before: typing another URL after a run
\* reaches the states that emptying the input and then typing it reaches.)
ClearUrl ==
  /\ pc = "end"
  /\ Fresh
  /\ user_link' = <<>>
  /\ thumbnail' = None
  /\ shown' = {}
  /\ pc' = "idle"

\* the user presses "Get Detailed Notes": the script reruns with the button
ClickButton ==
  /\ pc \in {"idle", "end"}
  /\ Fresh
  /\ UNCHANGED <<user_link, thumbnail>>
  /\ IF Strip(user_link) = <<>>
     THEN shown' = {"warning"} /\ pc' = "end"
     ELSE shown' = {} /\ pc' = "route"

\* agent_pipeline: route_input and the branch on it
agent_pipeline_route ==
  /\ pc = "route"
  /\ input_type' = route_input(user_link)
  /\ pc' = IF input_type' = "youtube" THEN "yt_id" ELSE "art_text"
  /\ UNCHANGED <<ui, ytLocals, artLocals, content, outputs, unhandled, calls>>

-----------------------------------------------------------------------------
(* extract_youtube_transcript.                                             *)

\* the function returns None through h
TranscriptAbsent(h) ==
  /\ Take(h)
  /\ content' = None
  /\ video_id' = None /\ transcript_list' = None /\ transcript' = None

yt_get_video_id ==
  /\ pc = "yt_id"
  /\ LET id == get_video_id(user_link)
     IN  IF id = None
         THEN /\ Log("get_video_id", "none")
              /\ TranscriptAbsent(no_video_id)
         ELSE /\ Log("get_video_id", "ok")
              /\ video_id' = id
              /\ pc' = "yt_list"
              /\ UNCHANGED <<transcript_list, transcript, content, shown, unhandled>>
  /\ UNCHANGED <<user_link, thumbnail, input_type, artLocals, outputs>>

yt_list ==
  /\ pc = "yt_list"
  /\ \/ /\ Log("list", "raise")
        /\ TranscriptAbsent(transcript_except)
     \/ \E tl \in TranscriptLists :
          /\ Log("list", "ok")
          /\ transcript_list' = Some(tl)
          /\ pc' = "yt_manual"
          /\ UNCHANGED <<video_id, transcript, content, shown, unhandled>>
  /\ UNCHANGED <<user_link, thumbnail, input_type, artLocals, outputs>>

yt_find_manual ==
  /\ pc = "yt_manual"
  /\ LET found == find_manually_created_transcript(transcript_list[1])
     IN  /\ Log("find_manual", IF found = None THEN "raise" ELSE "ok")
         /\ transcript' =
              IF found = None THEN None
              ELSE Some([kind |-> "manual", lang |-> found[1]])
         /\ pc' = after_manual(found)
  /\ UNCHANGED <<ui, input_type, video_id, transcript_list, artLocals, content,
                 outputs, unhandled>>

yt_find_generated ==
  /\ pc = "yt_generated"
  /\ LET found == find_generated_transcript(transcript_list[1])
     IN  IF found = None
         THEN /\ Log("find_generated", "raise")
              /\ TranscriptAbsent(transcript_except)
         ELSE /\ Log("find_generated", "ok")
              /\ transcript' = Some([kind |-> "generated", lang |-> found[1]])
              /\ pc' = "yt_fetch"
              /\ UNCHANGED <<video_id, transcript_list, content, shown, unhandled>>
  /\ UNCHANGED <<user_link, thumbnail, input_type, artLocals, outputs>>

yt_fetch ==
  /\ pc = "yt_fetch"
  /\ \/ /\ Log("fetch", "raise")
        /\ TranscriptAbsent(transcript_except)
     \/ \E fetched \in FetchedTranscripts :
          /\ Log("fetch", "ok")
          /\ content' = Some(transcript_text(fetched))
          /\ video_id' = None /\ transcript_list' = None /\ transcript' = None
          /\ pc' = "check"
          /\ UNCHANGED <<shown, unhandled>>
  /\ UNCHANGED <<user_link, thumbnail, input_type, artLocals, outputs>>

-----------------------------------------------------------------------------
(* extract_article_with_images.                                            *)

art_text ==
  /\ pc = "art_text"
  /\ \/ /\ Log("article", "raise")
        /\ Take(article_failure)
        /\ UNCHANGED text
     \/ \E t \in ArticleTexts :
          /\ Fetchable(user_link)
          /\ Log("article", "ok")
          /\ text' = Some(t)
          /\ pc' = "art_get"
          /\ UNCHANGED <<shown, unhandled>>
  /\ UNCHANGED <<user_link, thumbnail, input_type, ytLocals, html, image_urls,
                 ocr_raw, ocr_text, content, outputs>>

\* extract_image_urls: requests.get(url).text
art_get ==
  /\ pc = "art_get"
  /\ \/ /\ Log("harvest", "raise")
        /\ Take(harvest_failure)
        /\ UNCHANGED html
     \/ \E page \in PipelinePages :
          /\ Log("harvest", "ok")
          /\ html' = Some(page)
          /\ pc' = "art_scan"
          /\ UNCHANGED <<shown, unhandled>>
  /\ UNCHANGED <<user_link, thumbnail, input_type, ytLocals, text, image_urls,
                 ocr_raw, ocr_text, content, outputs>>

\* extract_image_urls: the scan of the parsed page
art_scan ==
  /\ pc = "art_scan"
  /\ image_urls' = extract_image_urls(user_link, html[1])
  /\ pc' = "art_ocr"
  /\ UNCHANGED <<ui, input_type, ytLocals, text, html, ocr_raw, ocr_text,
                 content, outputs, unhandled, calls>>

\* one turn of the loop over image_urls
art_ocr ==
  /\ pc = "art_ocr"
  /\ Len(ocr_raw) < Len(image_urls)
  /\ \E outcome \in OcrOutcomes :
       LET r == ocr_from_image_url(outcome)
       IN  IF r = None
           THEN /\ Log("ocr", "raise")
                /\ Take(Uncaught)
                /\ UNCHANGED <<ocr_raw, ocr_text>>
           ELSE /\ Log("ocr", "ok")
                /\ ocr_raw' = Append(ocr_raw, outcome)
                /\ ocr_text' = TCat(ocr_text, TCat(Rep("\n", 1), r[1]))
                /\ UNCHANGED <<pc, shown, unhandled>>
  /\ UNCHANGED <<user_link, thumbnail, input_type, ytLocals, text, html,
                 image_urls, content, outputs>>

\* after the loop: full_content is returned
art_assemble ==
  /\ pc = "art_ocr"
  /\ Len(ocr_raw) = Len(image_urls)
  /\ content' = Some(full_content(text[1], ocr_text))
  /\ pc' = "check"
  /\ UNCHANGED <<ui, input_type, ytLocals, artLocals, outputs, unhandled, calls>>

-----------------------------------------------------------------------------
(* agent_pipeline after the fetch, and the rest of the script.             *)

pipeline_check ==
  /\ pc = "check"
  /\ pc' = after_check(content)
  /\ UNCHANGED <<ui, input_type, ytLocals, artLocals, content, outputs,
                 unhandled, calls>>

summarize_with_groq ==
  /\ pc = "summarize"
  /\ request' = Some(completion_request(content[1]))
  /\ \/ /\ Log("summarize", "raise")
        /\ Take(summarize_failure)
        /\ UNCHANGED summary
     \/ \E completion \in Completions :
          /\ Log("summarize", "ok")
          /\ summary' = Some(completion)
          /\ pc' = "ui_result"
          /\ UNCHANGED <<shown, unhandled>>
  /\ UNCHANGED <<user_link, thumbnail, input_type, ytLocals, artLocals, content, pdf>>

\* `if summary:` ... `else: st.error(...)`
ui_result ==
  /\ pc = "ui_result"
  /\ IF Truthy(summary)
     THEN shown' = shown \cup {"summary"} /\ pc' = "pdf"
     ELSE shown' = shown \cup {"no_content"} /\ pc' = "end"
  /\ UNCHANGED <<user_link, thumbnail, input_type, ytLocals, artLocals, content,
                 outputs, unhandled, calls>>

\* create_pdf and the download button
ui_pdf ==
  /\ pc = "pdf"
  /\ LET data == create_pdf(summary[1])
     IN  IF data = None
         THEN /\ Log("create_pdf", "raise")
              /\ Take(Uncaught)
              /\ UNCHANGED pdf
         ELSE /\ Log("create_pdf", "ok")
              /\ pdf' = data
              /\ shown' = shown \cup {"download"}
              /\ pc' = "end"
              /\ UNCHANGED unhandled
  /\ UNCHANGED <<user_link, thumbnail, input_type, ytLocals, artLocals, content,
                 request, summary>>

-----------------------------------------------------------------------------
(* Specifications.                                                         *)

Next ==
  \/ \E u \in InputUrls : EnterUrl(u)
  \/ ClearUrl
  \/ ClickButton
  \/ agent_pipeline_route
  \/ yt_get_video_id
  \/ yt_list
  \/ yt_find_manual
  \/ yt_find_generated
  \/ yt_fetch
  \/ art_text
  \/ art_get
  \/ art_scan
  \/ art_ocr
  \/ art_assemble
  \/ pipeline_check
  \/ summarize_with_groq
  \/ ui_result
  \/ ui_pdf

\* the script and the pipeline
Spec == Init /\ [][Next]_vars


\* get_video_id on its own: any argument, then the call.  Every variable but
\* user_link and pc starts as in Init.
InitId ==
  /\ user_link \in IdUrls
  /\ pc = "yt_id"
  /\ thumbnail = None /\ input_type = "none"
  /\ video_id = None /\ transcript_list = None /\ transcript = None
  /\ text = None /\ html = None /\ image_urls = <<>>
  /\ ocr_raw = <<>> /\ ocr_text = <<>>
  /\ content = None /\ request = None /\ summary = None /\ pdf = None
  /\ shown = {} /\ unhandled = FALSE /\ calls = <<>>

NextId == yt_get_video_id

SpecId == InitId /\ [][NextId]_vars

\* the scan of extract_image_urls on its own: any page at a page URL, then
\* the scan.  Every variable but user_link, html and pc starts as in Init.
InitHarvest ==
  /\ user_link \in HarvestUrls
  /\ html \in {Some(page) : page \in HarvestPages}
  /\ pc = "art_scan"
  /\ thumbnail = None /\ input_type = "none"
  /\ video_id = None /\ transcript_list = None /\ transcript = None
  /\ text = None /\ image_urls = <<>>
  /\ ocr_raw = <<>> /\ ocr_text = <<>>
  /\ content = None /\ request = None /\ summary = None /\ pdf = None
  /\ shown = {} /\ unhandled = FALSE /\ calls = <<>>

NextHarvest == art_scan

SpecHarvest == InitHarvest /\ [][NextHarvest]_vars

-----------------------------------------------------------------------------
(* Vocabulary of the properties.                                           *)

Called(op) == \E i \in DOMAIN calls : calls[i].op = op

Raised(op) == \E i \in DOMAIN calls : calls[i] = Call(op, "raise")

Count(op) == Cardinality({i \in DOMAIN calls : calls[i].op = op})

\* op1 was invoked, and before any invocation of op2
Before(op1, op2) ==
  \A j \in DOMAIN calls :
    calls[j].op = op2 => \E i \in 1..(j - 1) : calls[i].op = op1

TranscriptOps == {"get_video_id", "list", "find_manual", "find_generated", "fetch"}
ArticleOps == {"article", "harvest", "ocr"}

\* a pipeline run is under way or over
InRun == input_type # "none"

\* pat occurs in s, stated on positions
HasSub(pat, s) ==
  \E i \in 1..Len(s) :
    /\ i + Len(pat) - 1 <= Len(s)
    /\ \A k \in 1..Len(pat) : s[i + k - 1] = pat[k]

\* the Transcript Fetcher has returned an absent result
TranscriptAbsentResult ==
  /\ input_type = "youtube"
  /\ pc \in {"check", "ui_result", "end"}
  /\ content = None

\* the Transcript Fetcher failed after the identifier was extracted
TranscriptStepRaised == Raised("list") \/ Raised("find_generated") \/ Raised("fetch")

-----------------------------------------------------------------------------
(* C1 *)

\* C1, as stated: whenever the Transcript Fetcher fails at any step (no
\* identifier, listing, both lookups, fetch) it does not raise, a transcript
\* error message is shown, the result is absent, the Summarizer is not
\* invoked and the page ends with "could not extract content".
C1_AsStated ==
  (input_type = "youtube" /\ (get_video_id(user_link) = None \/ TranscriptStepRaised)
     /\ pc \notin {"yt_id"})
  => /\ ~unhandled
     /\ "transcript_error" \in shown
     /\ TranscriptAbsentResult
     /\ ~Called("summarize")
     /\ (pc = "end" => "no_content" \in shown)

\* C1, amended: a failure of the Transcript Fetcher at any step never raises
\* and gives an absent result, after which the Summarizer is not invoked and
\* the page ends with "could not extract content"; the transcript error
\* message is shown exactly when the listing, the generated lookup or the
\* fetch raised, and is not shown when no identifier could be extracted.
C1_FetcherFailure ==
  /\ (input_type = "youtube" /\ (get_video_id(user_link) = None \/ TranscriptStepRaised)
        /\ pc \notin {"yt_id"})
     => /\ ~unhandled
        /\ TranscriptAbsentResult
        /\ ("transcript_error" \in shown <=> TranscriptStepRaised)
        /\ (get_video_id(user_link) = None => "transcript_error" \notin shown)
        /\ ~Called("summarize") /\ request = None
        /\ (pc = "end" => shown \cap {"no_content", "summary", "download"} = {"no_content"})
  /\ TranscriptAbsentResult => (get_video_id(user_link) = None \/ TranscriptStepRaised)

C1_Witness ==
  /\ pc = "end"
  /\ TranscriptAbsentResult
  /\ Raised("fetch")
  /\ Called("find_generated")
  /\ shown = {"transcript_error", "no_content"}

-----------------------------------------------------------------------------
(* C2 *)

\* the article path ended with no usable text: empty article text, and no
\* image or only empty OCR results
ArticleNoText ==
  /\ input_type = "article"
  /\ content # None
  /\ text = Some(<<>>)
  /\ \A i \in DOMAIN ocr_raw : ocr_from_image_url(ocr_raw[i]) = Some(<<>>)

\* the video path ended with no usable text: absent or empty transcript text
VideoNoText ==
  /\ input_type = "youtube"
  /\ pc \notin {"yt_id", "yt_list", "yt_manual", "yt_generated", "yt_fetch"}
  /\ ~Truthy(content)

\* C2: on both fetch paths a source without usable text is treated as an
\* extraction failure: the Summarizer is never invoked, agent_pipeline
\* returns absent and the page shows "could not extract content".
C2_EmptyContent ==
  (ArticleNoText \/ VideoNoText)
  => /\ pc \in {"check", "ui_result", "end"}
     /\ ~Called("summarize")
     /\ summary = None
     /\ ~unhandled
     /\ (pc = "end" => shown \cap {"no_content", "summary"} = {"no_content"})

-----------------------------------------------------------------------------
(* C3 *)

\* the lookups of the Transcript Fetcher are over
LookupsOver == input_type = "youtube" /\ pc \notin {"yt_id", "yt_list", "yt_manual", "yt_generated"}

\* C3, as stated: the manual lookup comes before the generated one, and the
\* generated lookup is attempted exactly when the manual lookup found nothing
\* or the listing failed.
C3_AsStated ==
  /\ Before("find_manual", "find_generated")
  /\ LookupsOver => (Called("find_generated") <=> (Raised("find_manual") \/ Raised("list")))

\* C3, amended: the manual lookup comes before the generated one; the
\* generated lookup (same preference en, hi) is attempted exactly when the
\* manual lookup was attempted and raised, that is when the listing succeeded
\* and holds no manual transcript in en or hi; when the listing fails neither
\* lookup is attempted; a manual transcript that was found is the one fetched.
C3_Fallback ==
  /\ Before("find_manual", "find_generated")
  /\ Before("list", "find_manual")
  /\ Count("find_manual") <= 1 /\ Count("find_generated") <= 1
  /\ LookupsOver => (Called("find_generated") <=> Raised("find_manual"))
  /\ Raised("list") => ~Called("find_manual") /\ ~Called("find_generated")
  /\ pc = "yt_generated"
       => /\ transcript_list # None
          /\ transcript_list[1].manual \cap {"en", "hi"} = {}
          /\ Raised("find_manual") /\ ~Called("find_generated")
  /\ pc = "yt_fetch"
       => /\ transcript # None /\ transcript_list # None
          /\ LET tl == transcript_list[1]
                 t  == transcript[1]
             IN  /\ t.kind = "manual"
                      <=> tl.manual \cap {"en", "hi"} # {}
                 /\ t.kind = "manual" => t.lang \in tl.manual /\ ~Called("find_generated")
                 /\ t.kind = "generated" => t.lang \in tl.generated
                 /\ t.lang \in {"en", "hi"}
                 /\ t.lang = "hi" =>
                      "en" \notin (IF t.kind = "manual" THEN tl.manual ELSE tl.generated)

C3_Witness ==
  /\ pc = "yt_fetch"
  /\ transcript = Some([kind |-> "generated", lang |-> "hi"])
  /\ transcript_list[1].manual = {"de"}
  /\ Raised("find_manual")

-----------------------------------------------------------------------------
(* C4 *)

\* the three outcomes of a run, as the page shows them
Done == "summary" \in shown
NoContent == "no_content" \in shown
Failed == unhandled

OnceEach ==
  /\ Count("get_video_id") <= 1 /\ Count("list") <= 1 /\ Count("fetch") <= 1
  /\ Count("article") <= 1
  /\ Count("harvest") <= 1
  /\ Count("ocr") <= MaxHarvest
  /\ Count("summarize") <= 1
  /\ Count("create_pdf") <= 1

\* the place of a component in Routing -> Fetching -> Aggregating -> Summarizing
Stage(op) ==
  IF op \in {"get_video_id", "list", "find_manual", "find_generated", "fetch", "article"}
  THEN "fetching"
  ELSE IF op \in {"harvest", "ocr"} THEN "aggregating"
  ELSE IF op = "summarize" THEN "summarizing"
  ELSE "export"

StageRank(s) ==
  CASE s = "fetching" -> 1 [] s = "aggregating" -> 2 [] s = "summarizing" -> 3
    [] s = "export" -> 4

\* the components run in the order of the stages, and a raise is the last call
InOrder ==
  /\ \A i, j \in DOMAIN calls :
       i < j => StageRank(Stage(calls[i].op)) <= StageRank(Stage(calls[j].op))
  /\ \A i \in DOMAIN calls :
       calls[i].res = "raise" /\ i < Len(calls)
         => calls[i].op \in {"find_manual"}

\* the Summarizer runs only once the fetch (and the aggregation) has
\* completed, with non-empty content
SummarizerAfterContent ==
  (pc = "summarize" \/ Called("summarize"))
  => /\ Truthy(content)
     /\ ~Raised("list") /\ ~Raised("find_generated") /\ ~Raised("fetch")
     /\ ~Raised("article") /\ ~Raised("harvest")
     /\ input_type = "youtube"
          => /\ \E i \in DOMAIN calls : calls[i] = Call("fetch", "ok")
             /\ Before("fetch", "summarize")
     /\ input_type = "article"
          => /\ calls[1] = Call("article", "ok")
             /\ calls[2] = Call("harvest", "ok")
             /\ Before("harvest", "summarize")
             /\ Len(ocr_raw) = Len(image_urls)
             /\ Count("ocr") = Len(image_urls)

\* C4, as stated: a run goes through the stages in order, each of transcript
\* fetch, article fetch, image harvest and Summarizer at most once, the
\* Summarizer only after the fetch completed with non-empty content, and it
\* ends in exactly one of Done (summary shown), no-content, Failed (unhandled
\* error), after which no component of the pipeline runs.
C4_AsStated ==
  InRun
  => /\ OnceEach /\ InOrder /\ SummarizerAfterContent
     /\ ~(Done /\ NoContent) /\ ~(Done /\ Failed) /\ ~(NoContent /\ Failed)
     /\ (pc = "end" => Done \/ NoContent \/ Failed)
     /\ (NoContent \/ Failed) => pc = "end"
     /\ Done => /\ pc \in {"pdf", "end"}
                /\ calls[Len(calls)].op \in {"summarize", "create_pdf"}

\* C4, amended: as stated up to the outcome of the pipeline; the outcome is
\* exactly one of Done, no-content and Failed unless the PDF export, the one
\* step that runs after Done, raises: then the run ends Failed with the
\* summary shown.  No component of the pipeline runs after an outcome, and
\* nothing at all after no-content or Failed.
C4_RunShape ==
  InRun
  => /\ OnceEach /\ InOrder /\ SummarizerAfterContent
     /\ ~(Done /\ NoContent) /\ ~(NoContent /\ Failed)
     /\ (Done /\ Failed) => calls[Len(calls)] = Call("create_pdf", "raise")
     /\ (pc = "end" => Done \/ NoContent \/ Failed)
     /\ (NoContent \/ Failed) => pc = "end"
     /\ Done => /\ pc \in {"pdf", "end"}
                /\ calls[Len(calls)].op \in {"summarize", "create_pdf"}
                /\ (pc = "end" /\ ~Failed => "download" \in shown)

C4_Witness ==
  /\ pc = "end"
  /\ input_type = "article"
  /\ Count("ocr") = MaxHarvest
  /\ shown = {"summary", "download"}
  /\ ~unhandled

-----------------------------------------------------------------------------
(* C5 *)

\* the OCR text of one image: empty when the download, the decoding or the
\* recognition raised
OcrTextOf(outcome) == IF outcome = None THEN <<>> ELSE TStrip(outcome[1])

RECURSIVE OcrBlock(_)
\* for each processed image in order, a newline followed by its OCR text
OcrBlock(raw) ==
  IF raw = <<>> THEN <<>>
  ELSE TCat(TCat(Rep("\n", 1), OcrTextOf(Head(raw))), OcrBlock(Tail(raw)))

\* C5: an OCR failure on any harvested image gives the empty string for that
\* image and never aborts the run; every harvested image is processed, in
\* order, and the Aggregated Content is article text + header + for each
\* harvested image a newline and its OCR text (article text + header when
\* no image was harvested).
C5_OcrTolerance ==
  input_type = "article"
  => /\ ~Raised("ocr")
     /\ Len(ocr_raw) <= Len(image_urls)
     /\ Count("ocr") = Len(ocr_raw)
     /\ (unhandled => Raised("article") \/ Raised("harvest") \/ Raised("summarize")
                        \/ Raised("create_pdf"))
     /\ content # None
          => /\ Len(ocr_raw) = Len(image_urls)
             /\ content = Some(TCat(TCat(text[1], IMAGES_HEADER), OcrBlock(ocr_raw)))
             /\ image_urls = <<>> => content = Some(TCat(text[1], IMAGES_HEADER))

C5_Witness ==
  /\ input_type = "article"
  /\ content # None
  /\ Len(ocr_raw) = MaxHarvest
  /\ ocr_raw[1] = None
  /\ ocr_raw[2] # None /\ TStrip(ocr_raw[2][1]) # <<>>
  /\ ocr_raw[3] = None

-----------------------------------------------------------------------------
(* C6 *)

\* C6: a failure of the Article Fetcher, of the Image Harvester's GET or of
\* the Summarizer is not caught: the run ends with an unhandled error, no
\* later component is invoked, no summary or export is offered, and "could
\* not extract content" is not shown.
C6_Uncaught ==
  /\ Raised("article")
       => /\ unhandled /\ pc = "end"
          /\ ~Called("harvest") /\ ~Called("ocr") /\ ~Called("summarize")
          /\ shown = {}
  /\ Raised("harvest")
       => /\ unhandled /\ pc = "end"
          /\ ~Called("ocr") /\ ~Called("summarize")
          /\ shown = {}
  /\ Raised("summarize")
       => /\ unhandled /\ pc = "end"
          /\ summary = None /\ pdf = None /\ ~Called("create_pdf")
          /\ shown \cap {"summary", "download", "no_content"} = {}

C6_Witness ==
  /\ Raised("article")
  /\ Fetchable(user_link)
  /\ unhandled

-----------------------------------------------------------------------------
(* C7 *)

\* C7: the route is "youtube" exactly when the URL holds "youtube.com" or
\* "youtu.be" (case-sensitively), "article" otherwise; a video run invokes
\* no component of the article path and an article run none of the
\* Transcript Fetcher.
C7_Routing ==
  InRun
  => /\ input_type =
          (IF HasSub(YOUTUBE_COM, user_link) \/ HasSub(YOUTU_BE, user_link)
           THEN "youtube" ELSE "article")
     /\ input_type = "youtube"
          => /\ \A i \in DOMAIN calls : calls[i].op \notin ArticleOps
             /\ text = None /\ html = None /\ image_urls = <<>> /\ ocr_raw = <<>>
     /\ input_type = "article"
          => /\ \A i \in DOMAIN calls : calls[i].op \notin TranscriptOps
             /\ video_id = None /\ transcript_list = None /\ transcript = None
             /\ "transcript_error" \notin shown

C7_Witness ==
  /\ StartsWith(user_link, SegYtCap)
  /\ input_type = "article"
  /\ Called("ocr")

-----------------------------------------------------------------------------
(* C8 *)

\* the text a is a prefix of the text b: the runs of a but the last are runs
\* of b, and the last run of a is the start of the run of b at its place
IsPrefix(a, b) ==
  \/ a = <<>>
  \/ /\ Len(a) <= Len(b)
     /\ \A i \in 1..(Len(a) - 1) : a[i] = b[i]
     /\ a[Len(a)].c = b[Len(a)].c
     /\ a[Len(a)].n <= b[Len(a)].n

\* C8: the user message is the fixed prefix followed by the first 7000
\* characters of the content (the whole content when it has at most 7000),
\* and the completion is requested exactly once.
C8_Truncation ==
  /\ Count("summarize") <= 1
  /\ request # None <=> Called("summarize")
  /\ request # None
       => LET sent == request[1].user
              full == TCat(USER_PREFIX, content[1])
          IN  /\ IsPrefix(USER_PREFIX, sent)
              /\ IsPrefix(sent, full)
              /\ TLen(sent) = TLen(USER_PREFIX) + Min(TLen(content[1]), Limit)
              /\ TLen(content[1]) <= Limit => sent = full

C8_Witness ==
  /\ request # None
  /\ input_type = "article"
  /\ TLen(text[1]) = Limit - TLen(IMAGES_HEADER)
  /\ TLen(content[1]) > Limit
  /\ Count("summarize") = 1

-----------------------------------------------------------------------------
(* C9 *)

\* the positions of the <img> elements that have a non-empty source
WithSrc(imgs) == {i \in DOMAIN imgs : imgs[i] # None /\ imgs[i][1] # <<>>}

\* the k-th of them in document order
NthWithSrc(imgs, k) ==
  CHOOSE i \in WithSrc(imgs) : Cardinality({j \in WithSrc(imgs) : j < i}) = k - 1

\* C9: the harvest holds at most 3 URLs; they are the sources, resolved
\* against the page URL into absolute URLs, of the first three <img>
\* elements in document order that have a non-empty source; elements
\* without one take no slot, and fewer than three give all of them.
C9_Harvest ==
  (pc = "art_ocr" /\ html # None)
  => LET imgs == html[1]
     IN  /\ Len(image_urls) <= MaxHarvest
         /\ Len(image_urls) = Min(Cardinality(WithSrc(imgs)), MaxHarvest)
         /\ \A k \in DOMAIN image_urls :
              /\ image_urls[k] = urljoin(user_link, imgs[NthWithSrc(imgs, k)][1])
              /\ StartsWith(image_urls[k], HTTPS)

C9_Witness ==
  /\ pc = "art_ocr"
  /\ html = Some(<<None, Some(SrcRelative), Some(SrcRooted), Some(SrcAbsolute), Some(SrcRelative)>>)
  /\ user_link = SegSite \o SegShort
  /\ image_urls = <<SegSite \o SrcRelative, SegSite \o Tail(SrcRooted), SrcAbsolute>>

-----------------------------------------------------------------------------
(* C10 *)

\* x is 11 characters of [0-9A-Za-z_-]
IsId(x) == Len(x) = IdLen /\ \A k \in DOMAIN x : x[k] \in IdChars

\* marker \o x occurs at position i of url, x being an identifier: x, or None
IdAfter(url, i, marker) ==
  LET j == i + Len(marker)
  IN  IF /\ j + IdLen - 1 <= Len(url)
         /\ SubSeq(url, i, j - 1) = marker
         /\ IsId(SubSeq(url, j, j + IdLen - 1))
      THEN Some(SubSeq(url, j, j + IdLen - 1)) ELSE None

\* the places <<i, X>> of url where v=X or /X occurs
Occurrences(url) ==
  {<<i, IdAfter(url, i, m)[1]>> :
     <<i, m>> \in {o \in (DOMAIN url) \X {<<"v", "=">>, <<"/">>} :
                     IdAfter(url, o[1], o[2]) # None}}

\* what get_video_id returned
IdResult == IF pc = "yt_list" THEN video_id ELSE None

\* C10, as stated: for a URL holding v=X or /X, X being 11 characters of
\* [0-9A-Za-z_-], get_video_id returns exactly X; for a URL holding neither
\* it returns None.
C10_AsStated ==
  (pc \in {"yt_list", "check"} /\ Len(calls) = 1)
  => /\ \A o \in Occurrences(user_link) : IdResult = Some(o[2])
     /\ Occurrences(user_link) = {} => IdResult = None

\* C10, amended: get_video_id returns the 11 characters X of the leftmost
\* place of the URL where v=X or /X occurs, and None for a URL holding
\* neither.
C10_Leftmost ==
  (pc \in {"yt_list", "check"} /\ Len(calls) = 1)
  => /\ \A o \in Occurrences(user_link) :
          (\A p \in Occurrences(user_link) : o[1] <= p[1]) => IdResult = Some(o[2])
     /\ Occurrences(user_link) = {} <=> IdResult = None

C10_Witness ==
  /\ pc = "yt_list"
  /\ user_link = SegAttr \o SegWatch \o SegId
  /\ Cardinality({o[2] : o \in Occurrences(user_link)}) = 2
  /\ video_id = Some(<<"a", "t", "t", "r", "i", "b", "u", "t", "i", "o", "n">>)

=============================================================================
